---- MODULE Spec2Model ----
(***************************************************************************)
(* A model of the finance-rag command line assistant: the startup of       *)
(* main() (knowledge-base indexing, prompt fetch, model name), the         *)
(* conversation loop, and the two-node retrieve/generate graph.            *)
(*                                                                         *)
(* Text is modelled as a sequence of one-character strings, so that        *)
(* str.strip(), str.lower() and the "*.txt" glob are computed, not assumed. *)
(* The embedding service, the prompt registry and the chat model are       *)
(* outside the repository: each call to them either raises or returns a    *)
(* value that is a fixed function of its arguments.                        *)
(***************************************************************************)
EXTENDS Integers, Sequences, FiniteSets, TLC

VARIABLES
    pc,               \* position of the single control thread in main()
    OLLAMA_MODEL,     \* Variables.OLLAMA_MODEL, read from the environment
    kb_exists,        \* what Path.exists() answered for knowledge_base
    dir_listing,      \* the directory entries index_knowledge_base saw
    text_documents,   \* the list returned by _load_text_files
    vector_store,     \* main's vector_store
    prompt,           \* main's prompt template
    model_name,       \* main's model_name
    llm,              \* main's llm
    line,             \* the raw line input() returned last
    user_input,       \* main's user_input (the stripped line)
    state,            \* the State threaded through the graph by invoke
    serialized_result,\* main's serialized_result
    stdout,           \* the last message printed
    exc,              \* the class of the exception raised last ("" if none)
    raised_at,        \* the position that raised it
    trace             \* the calls made since the last input() returned

vars == <<pc, OLLAMA_MODEL, kb_exists, dir_listing, text_documents,
          vector_store, prompt, model_name, llm, line, user_input, state,
          serialized_result, stdout, exc, raised_at, trace>>

\* Python's None, and a present value: an optional is a sequence of at most
\* one element.
None == <<>>

Some(v) == <<v>>

Val(o) == o[1]

(***************************************************************************)
(* Bounds of the model.                                                    *)
(***************************************************************************)
MaxLen == 2      \* longest generated input line
MaxFiles == 2    \* most entries in the knowledge_base directory
MaxContext == 2  \* longest context list given to the RAG service directly

(***************************************************************************)
(* Text.                                                                   *)
(***************************************************************************)
\* the characters str.strip() removes, among those typed here
Whitespace == {" ", "\t"}

LowerChar(c) ==
    CASE c = "Q" -> "q"
      [] c = "U" -> "u"
      [] c = "I" -> "i"
      [] c = "T" -> "t"
      [] c = "E" -> "e"
      [] c = "X" -> "x"
      [] c = "H" -> "h"
      [] OTHER -> c

LowerIdentity(s) == s

\* str.lower()
Lower(s) == [i \in 1..Len(s) |-> LowerChar(s[i])]

RECURSIVE LStrip(_)
LStrip(s) ==
    IF s # <<>> /\ Head(s) \in Whitespace THEN LStrip(Tail(s)) ELSE s

RECURSIVE RStrip(_)
RStrip(s) ==
    IF s # <<>> /\ s[Len(s)] \in Whitespace
    THEN RStrip(SubSeq(s, 1, Len(s) - 1))
    ELSE s

StripNothing(s) == s

\* str.strip()
Strip(s) == RStrip(LStrip(s))

\* the list ['quit', 'exit', 'q'] of main()
ExitKeywords == {<<"q", "u", "i", "t">>, <<"e", "x", "i", "t">>, <<"q">>}

(***************************************************************************)
(* The lines a user may type: every line of at most MaxLen characters over *)
(* a small alphabet, and a few longer ones.                                *)
(***************************************************************************)
Alphabet == {" ", "Q"}

GeneratedLines == UNION {[1..n -> Alphabet] : n \in 0..MaxLen}

SampleLines ==
    { <<"q">>,
      <<"q", "Q">>,
      <<"q", "u", "i", "t">>,
      <<"Q", "u", "i", "t">>,
      <<" ", " ", "E", "X", "I", "T", " ">>,
      <<"e", "x", "i", "t">>,
      <<"q", "u", "i", "t", " ">>,
      <<"q", "u", "i", "t", "e">>,
      <<" ", "h", "i">>,
      <<"\t", "q", "\t">>,
      <<" ", "\t">>,
      <<" ", " ", " ">> }

InputLines == GeneratedLines \cup SampleLines

(***************************************************************************)
(* The knowledge_base directory. An entry has a name, the text read() would *)
(* return, and whether open()/read() succeeds on it.                       *)
(***************************************************************************)
FileNames ==
    { <<"a", ".", "t", "x", "t">>,
      <<"b", ".", "t", "x", "t">>,
      <<"a", ".", "m", "d">>,
      <<"t", "x", "t">> }

FileContents == { <<>>, <<"t">> }

Entries == [name : FileNames, readable : BOOLEAN, content : FileContents]

Listings ==
    { l \in UNION {[1..n -> Entries] : n \in 0..MaxFiles} :
        \A i, j \in 1..Len(l) : i # j => l[i].name # l[j].name }

\* IndexService.__KNOWLEDGE_BASE_PATH
KNOWLEDGE_BASE_PATH ==
    <<"k", "n", "o", "w", "l", "e", "d", "g", "e", "_", "b", "a", "s", "e">>

\* the pattern given to directory_path.glob
TxtPattern == <<"*", ".", "t", "x", "t">>

\* fnmatch of a name against a pattern "*" + suffix
MatchesPattern(name, pattern) ==
    LET suffix == Tail(pattern)
    IN  /\ Head(pattern) = "*"
        /\ Len(name) >= Len(suffix)
        /\ SubSeq(name, Len(name) - Len(suffix) + 1, Len(name)) = suffix

GlobEverything(listing, pattern) == listing

\* list(directory_path.glob(pattern))
Glob(listing, pattern) ==
    SelectSeq(listing, LAMBDA f : MatchesPattern(f.name, pattern))

\* the Document built from one file that was read
MakeDocument(f) ==
    [ page_content |-> f.content,
      metadata |-> [ source |-> KNOWLEDGE_BASE_PATH \o <<"/">> \o f.name,
                     filename |-> f.name,
                     file_type |-> "text" ] ]

RECURSIVE LoadLoop(_, _)
LoadLoop(text_files, documents) ==
    IF text_files = <<>> THEN documents
    ELSE LET f == Head(text_files)
         IN  IF f.readable
             THEN LoadLoop(Tail(text_files), Append(documents, MakeDocument(f)))
             ELSE LoadLoop(Tail(text_files), documents)

RECURSIVE LoadLoopAborting(_, _)
LoadLoopAborting(text_files, documents) ==
    IF text_files = <<>> THEN documents
    ELSE LET f == Head(text_files)
         IN  IF f.readable
             THEN LoadLoopAborting(Tail(text_files),
                                   Append(documents, MakeDocument(f)))
             ELSE documents

LoadTextFilesStopAtFailure(listing) ==
    LoadLoopAborting(Glob(listing, TxtPattern), <<>>)

\* IndexService._load_text_files
LoadTextFiles(listing) == LoadLoop(Glob(listing, TxtPattern), <<>>)

\* the test len(text_documents) == 0 of index_knowledge_base
IsEmptyKnowledgeBase(documents) == Len(documents) = 0

\* text_splitter.split_documents: the documents here are far shorter than
\* chunk_size, so a document with text is one chunk starting at 0 and a
\* document without text gives no chunk.
RECURSIVE SplitDocuments(_)
SplitDocuments(documents) ==
    IF documents = <<>> THEN <<>>
    ELSE LET d == Head(documents)
         IN  (IF d.page_content = <<>> THEN <<>>
              ELSE << [ page_content |-> d.page_content,
                        metadata |-> d.metadata,
                        start_index |-> 0 ] >>)
             \o SplitDocuments(Tail(documents))

(***************************************************************************)
(* Exceptions. A raise inside the try block of the loop goes to the except *)
(* clause when the clause catches its class; any other raise ends main().  *)
(***************************************************************************)
ExceptionSubclasses ==
    { "ValueError", "FileNotFoundError", "EOFError",
      "ServiceError",       \* whatever a remote dependency raises
      "ValidationError",    \* pydantic
      "TypeError",          \* a call whose arguments do not bind
      "OSError" }           \* a failed write to the terminal

TryBlock == {"retrieve", "generate", "serialize", "display"}

CatchesValueErrorOnly(e) == e = "ValueError"

\* except Exception
Catches(e) == e \in ExceptionSubclasses

Raise(e, site) ==
    /\ exc' = e
    /\ raised_at' = site
    /\ pc' = IF site \in TryBlock /\ Catches(e) THEN "except" ELSE "aborted"

Message(kind) == [kind |-> kind, exc |-> "", answer |-> None]

(***************************************************************************)
(* The State model and the RAG service.                                    *)
(***************************************************************************)
\* State(): every field defaults to None
DefaultState == [question |-> None, context |-> None, answer |-> None]

InitialStateKeepingFields(input_question) ==
    [state EXCEPT !.question = Some(input_question)]

\* the State the graph builds from the input {"question": user_input}
InitialState(input_question) ==
    [DefaultState EXCEPT !.question = Some(input_question)]

RECURSIVE Reverse(_)
Reverse(s) == IF s = <<>> THEN <<>> ELSE Append(Reverse(Tail(s)), Head(s))

\* vector_store.similarity_search: the stored chunks, ranked for the query.
\* The ranking is the embedding model's; here it is a fixed function of the
\* query and the store.
SimilaritySearch(store, query) ==
    IF Len(query) % 2 = 0 THEN store.documents ELSE Reverse(store.documents)

\* "\n\n".join(document.page_content for document in context)
RECURSIVE DocumentsContent(_)
DocumentsContent(context) ==
    IF context = <<>> THEN <<>>
    ELSE IF Len(context) = 1 THEN Head(context).page_content
    ELSE Head(context).page_content \o <<"\n", "\n">>
         \o DocumentsContent(Tail(context))

\* prompt.invoke: the template with its two placeholders filled
PromptInvoke(template, input) ==
    [template |-> template.id, question |-> input.question,
     context |-> input.context]

\* llm.invoke: the reply is the chat model's; a fixed function of the prompt
LLMInvoke(model, target_prompt) ==
    [content |-> [model |-> model.model, prompt |-> target_prompt]]

(***************************************************************************)
(* A call of retrieve or generate gives what it raised ("" if it returned), *)
(* the State it returned, and the calls it made to its dependencies.       *)
(* `reachable` and `outcome` say how the dependencies behave in this call. *)
(***************************************************************************)
RetrieveSearchingFirst(self, s, reachable) ==
    IF s.question = None
    THEN [raised |-> "ValueError", state |-> s,
          calls |-> <<"similarity_search">>]
    ELSE IF reachable
    THEN [raised |-> "",
          state |-> [question |-> s.question,
                     context |-> Some(SimilaritySearch(self.vector_store,
                                                       Val(s.question))),
                     answer |-> s.answer],
          calls |-> <<"similarity_search">>]
    ELSE [raised |-> "ServiceError", state |-> s,
          calls |-> <<"similarity_search", "similarity_search:raise">>]

\* RAGService.retrieve
Retrieve(self, s, reachable) ==
    IF s.question = None
    THEN [raised |-> "ValueError", state |-> s, calls |-> <<>>]
    ELSE IF reachable
    THEN [raised |-> "",
          state |-> [question |-> s.question,
                     context |-> Some(SimilaritySearch(self.vector_store,
                                                       Val(s.question))),
                     answer |-> s.answer],
          calls |-> <<"similarity_search">>]
    ELSE [raised |-> "ServiceError", state |-> s,
          calls |-> <<"similarity_search", "similarity_search:raise">>]

GenerateOutcomes == {"ok", "prompt raises", "llm raises"}

\* RAGService.generate past its guard
GenerateBody(self, s, outcome) ==
    LET target_prompt ==
            PromptInvoke(self.prompt,
                         [question |-> Val(s.question),
                          context |-> DocumentsContent(Val(s.context))])
        response == LLMInvoke(self.llm, target_prompt)
    IN  CASE outcome = "ok" ->
               [raised |-> "",
                state |-> [question |-> s.question,
                           context |-> s.context,
                           answer |-> Some(response.content)],
                calls |-> <<"prompt.invoke", "llm.invoke">>]
          [] outcome = "prompt raises" ->
               [raised |-> "ServiceError", state |-> s,
                calls |-> <<"prompt.invoke", "prompt.invoke:raise">>]
          [] outcome = "llm raises" ->
               [raised |-> "ServiceError", state |-> s,
                calls |-> <<"prompt.invoke", "llm.invoke", "llm.invoke:raise">>]

GenerateWithoutEmptyCheck(self, s, outcome) ==
    IF s.context = None \/ s.question = None
    THEN [raised |-> "ValueError", state |-> s, calls |-> <<>>]
    ELSE GenerateBody(self, s, outcome)

GenerateRetrying(self, s, outcome) ==
    IF s.context = None \/ Len(Val(s.context)) = 0 \/ s.question = None
    THEN [raised |-> "ValueError", state |-> s, calls |-> <<>>]
    ELSE IF outcome = "llm raises"
    THEN [GenerateBody(self, s, "ok") EXCEPT
            !.calls = <<"prompt.invoke", "llm.invoke", "llm.invoke:raise",
                        "llm.invoke">>]
    ELSE GenerateBody(self, s, outcome)

\* RAGService.generate
Generate(self, s, outcome) ==
    IF s.context = None \/ Len(Val(s.context)) = 0 \/ s.question = None
    THEN [raised |-> "ValueError", state |-> s, calls |-> <<>>]
    ELSE GenerateBody(self, s, outcome)

(***************************************************************************)
(* The graph GraphService.build compiles.                                  *)
(***************************************************************************)
END == "__end__"

\* the nodes given to add_sequence, named after the functions
SequenceNodes == <<"retrieve", "generate">>

\* GraphService.__RETRIEVE_NODE, the end of the edge from START
RETRIEVE_NODE == "retrieve"

SuccessorCycling(node) ==
    IF node = "retrieve" THEN "generate" ELSE "retrieve"

\* add_sequence joins each node to the next; the last one has no edge out
Successor(node) ==
    LET i == CHOOSE k \in 1..Len(SequenceNodes) : SequenceNodes[k] = node
    IN  IF i < Len(SequenceNodes) THEN SequenceNodes[i + 1] ELSE END

\* where invoke goes after a node returned
AfterNode(node) ==
    IF Successor(node) = END THEN "serialize" ELSE Successor(node)

(***************************************************************************)
(* Startup of main().                                                      *)
(***************************************************************************)
OllamaModels == {None, Some("llama3")}

Init ==
    /\ pc = "index_knowledge_base"
    /\ OLLAMA_MODEL \in OllamaModels
    /\ kb_exists = None
    /\ dir_listing = None
    /\ text_documents = <<>>
    /\ vector_store = None
    /\ prompt = None
    /\ model_name = None
    /\ llm = None
    /\ line = None
    /\ user_input = None
    /\ state = DefaultState
    /\ serialized_result = None
    /\ stdout = Message("")
    /\ exc = ""
    /\ raised_at = ""
    /\ trace = <<>>

\* index_knowledge_base up to the empty test
IndexKnowledgeBase ==
    /\ pc = "index_knowledge_base"
    /\ \E d \in {None} \cup {Some(l) : l \in Listings} :
         /\ kb_exists' = Some(d # None)
         /\ dir_listing' = d
         /\ IF d = None
            THEN /\ Raise("FileNotFoundError", "index_knowledge_base")
                 /\ UNCHANGED <<text_documents, trace>>
            ELSE /\ text_documents' = LoadTextFiles(Val(d))
                 /\ trace' = Append(trace, "_load_text_files")
                 /\ IF IsEmptyKnowledgeBase(text_documents')
                    THEN Raise("ValueError", "index_knowledge_base")
                    ELSE /\ pc' = "from_documents"
                         /\ UNCHANGED <<exc, raised_at>>
    /\ UNCHANGED <<OLLAMA_MODEL, vector_store, prompt, model_name, llm, line,
                   user_input, state, serialized_result, stdout>>

\* the rest of index_knowledge_base: split, embed, build the store
BuildVectorStore ==
    /\ pc = "from_documents"
    /\ \E reachable \in BOOLEAN :
         IF reachable
         THEN /\ vector_store' = Some([documents |-> SplitDocuments(text_documents)])
              /\ trace' = trace \o <<"split_documents", "from_documents">>
              /\ dir_listing' = None
              /\ pc' = "get_prompt"
              /\ UNCHANGED <<exc, raised_at>>
         ELSE /\ trace' = trace \o <<"split_documents", "from_documents">>
              /\ Raise("ServiceError", "from_documents")
              /\ UNCHANGED <<vector_store, dir_listing>>
    /\ UNCHANGED <<OLLAMA_MODEL, kb_exists, text_documents, prompt, model_name,
                   llm, line, user_input, state, serialized_result, stdout>>

\* the template the registry holds under "rlm/rag-prompt"
RagPrompt == [id |-> "rlm/rag-prompt", input_variables |-> {"question", "context"}]

\* LangSmithService.get_prompt
GetPrompt ==
    /\ pc = "get_prompt"
    /\ \E reachable \in BOOLEAN :
         IF reachable
         THEN /\ prompt' = Some(RagPrompt)
              /\ pc' = "get_model_name"
              /\ UNCHANGED <<exc, raised_at>>
         ELSE /\ Raise("ServiceError", "get_prompt")
              /\ UNCHANGED prompt
    /\ UNCHANGED <<OLLAMA_MODEL, kb_exists, dir_listing, text_documents,
                   vector_store, model_name, llm, line, user_input, state,
                   serialized_result, stdout, trace>>

ModelNameNeverMissing(value) == FALSE

\* the test of get_model_name
ModelNameMissing(value) == value = None

\* get_model_name
GetModelName ==
    /\ pc = "get_model_name"
    /\ IF ModelNameMissing(OLLAMA_MODEL)
       THEN /\ Raise("ValueError", "get_model_name")
            /\ UNCHANGED model_name
       ELSE /\ model_name' = OLLAMA_MODEL
            /\ pc' = "build"
            /\ UNCHANGED <<exc, raised_at>>
    /\ UNCHANGED <<OLLAMA_MODEL, kb_exists, dir_listing, text_documents,
                   vector_store, prompt, llm, line, user_input, state,
                   serialized_result, stdout, trace>>

\* ChatOllama, RAGService, GraphService.build and the banner
BuildGraph ==
    /\ pc = "build"
    /\ llm' = Some([model |-> model_name])
    /\ stdout' = Message("banner")
    /\ trace' = <<>>
    /\ pc' = "input"
    /\ UNCHANGED <<OLLAMA_MODEL, kb_exists, dir_listing, text_documents,
                   vector_store, prompt, model_name, line, user_input, state,
                   serialized_result, exc, raised_at>>

(***************************************************************************)
(* The conversation loop.                                                  *)
(***************************************************************************)
\* ChatService.get_user_input, given the line input() returned
GetUserInputValue(l) == Strip(l)

\* one pass from input() to the break, the continue or graph.invoke
GetUserInput ==
    /\ pc = "input"
    /\ \E l \in InputLines :
         LET ui == GetUserInputValue(l)
         IN  /\ line' = Some(l)
             /\ user_input' = Some(ui)
             /\ IF Lower(ui) \in ExitKeywords
                THEN /\ stdout' = Message("farewell")
                     /\ pc' = "exited"
                     /\ trace' = <<>>
                     /\ UNCHANGED state
                ELSE IF ui = <<>>
                THEN /\ stdout' = Message("hint")
                     /\ pc' = "input"
                     /\ trace' = <<>>
                     /\ UNCHANGED state
                ELSE /\ stdout' = Message("prompt")
                     /\ state' = InitialState(ui)
                     /\ trace' = <<"graph.invoke">>
                     /\ pc' = RETRIEVE_NODE
    /\ UNCHANGED <<OLLAMA_MODEL, kb_exists, dir_listing, text_documents,
                   vector_store, prompt, model_name, llm, serialized_result,
                   exc, raised_at>>

\* input() raises: end of file, or the user interrupts
InputInterrupted ==
    /\ pc = "input"
    /\ \E e \in {"EOFError", "KeyboardInterrupt"} : Raise(e, "input")
    /\ stdout' = Message("prompt")
    /\ line' = None
    /\ UNCHANGED <<OLLAMA_MODEL, kb_exists, dir_listing, text_documents,
                   vector_store, prompt, model_name, llm, user_input,
                   state, serialized_result, trace>>

\* main's rag_service
RagService ==
    [vector_store |-> Val(vector_store), prompt |-> Val(prompt), llm |-> Val(llm)]

\* the graph runs a node: the State it returns replaces the graph's, and an
\* exception leaves invoke
RunNode(node, result) ==
    /\ trace' = trace \o <<node>> \o result.calls
                  \o <<IF result.raised = "" THEN node \o ":return"
                       ELSE node \o ":raise">>
    /\ IF result.raised = ""
       THEN /\ state' = result.state
            /\ pc' = AfterNode(node)
            /\ UNCHANGED <<exc, raised_at>>
       ELSE /\ Raise(result.raised, node)
            /\ UNCHANGED state

\* the graph runs RAGService.retrieve
RetrieveNode ==
    /\ pc = "retrieve"
    /\ \E reachable \in BOOLEAN :
         RunNode("retrieve", Retrieve(RagService, state, reachable))
    /\ UNCHANGED <<OLLAMA_MODEL, kb_exists, dir_listing, text_documents,
                   vector_store, prompt, model_name, llm, line, user_input,
                   serialized_result, stdout>>

\* the graph runs RAGService.generate
GenerateNode ==
    /\ pc = "generate"
    /\ \E outcome \in GenerateOutcomes :
         RunNode("generate", Generate(RagService, state, outcome))
    /\ UNCHANGED <<OLLAMA_MODEL, kb_exists, dir_listing, text_documents,
                   vector_store, prompt, model_name, llm, line, user_input,
                   serialized_result, stdout>>

\* The graph passes the State to a node by position, and retrieve and generate
\* take it by keyword only: whether the call binds is the graph library's
\* matter, so a node call may also end in a TypeError before its body runs.
NodeCallRejected ==
    /\ pc \in {"retrieve", "generate"}
    /\ trace' = Append(trace, pc \o ":rejected")
    /\ Raise("TypeError", pc)
    /\ UNCHANGED <<OLLAMA_MODEL, kb_exists, dir_listing, text_documents,
                   vector_store, prompt, model_name, llm, line, user_input,
                   state, serialized_result, stdout>>

\* State(**result)
Serialize ==
    /\ pc = "serialize"
    /\ \E valid \in BOOLEAN :
         IF valid
         THEN /\ serialized_result' = Some(state)
              /\ pc' = "display"
              /\ UNCHANGED <<exc, raised_at>>
         ELSE /\ Raise("ValidationError", "serialize")
              /\ UNCHANGED serialized_result
    /\ UNCHANGED <<OLLAMA_MODEL, kb_exists, dir_listing, text_documents,
                   vector_store, prompt, model_name, llm, line, user_input,
                   state, stdout, trace>>

\* ChatService.display_response
DisplayResponse ==
    /\ pc = "display"
    /\ \E written \in BOOLEAN :
         IF written
         THEN /\ stdout' = IF Val(serialized_result).answer = None
                           THEN Message("no_answer")
                           ELSE [kind |-> "answer", exc |-> "",
                                 answer |-> Val(serialized_result).answer]
              /\ pc' = "input"
              /\ UNCHANGED <<exc, raised_at>>
         ELSE /\ Raise("OSError", "display")
              /\ UNCHANGED stdout
    /\ UNCHANGED <<OLLAMA_MODEL, kb_exists, dir_listing, text_documents,
                   vector_store, prompt, model_name, llm, line, user_input,
                   state, serialized_result, trace>>

\* the except clause of the loop
ExceptHandler ==
    /\ pc = "except"
    /\ stdout' = [kind |-> "error", exc |-> exc, answer |-> None]
    /\ exc' = ""
    /\ raised_at' = ""
    /\ pc' = "input"
    /\ UNCHANGED <<OLLAMA_MODEL, kb_exists, dir_listing, text_documents,
                   vector_store, prompt, model_name, llm, line, user_input,
                   state, serialized_result, trace>>

Next ==
    \/ IndexKnowledgeBase
    \/ BuildVectorStore
    \/ GetPrompt
    \/ GetModelName
    \/ BuildGraph
    \/ GetUserInput
    \/ InputInterrupted
    \/ RetrieveNode
    \/ GenerateNode
    \/ NodeCallRejected
    \/ Serialize
    \/ DisplayResponse
    \/ ExceptHandler

Spec == Init /\ [][Next]_vars

(***************************************************************************)
(* RAGService.retrieve and RAGService.generate called on any State: the    *)
(* graph is entered at either node with a State drawn from a bounded set,  *)
(* over a store and a prompt already built.                                *)
(***************************************************************************)
AnyChunks ==
    { [ page_content |-> <<"t">>,
        metadata |-> MakeDocument([name |-> n, readable |-> TRUE,
                                   content |-> <<"t">>]).metadata,
        start_index |-> 0 ] :
      n \in { <<"a", ".", "t", "x", "t">>, <<"b", ".", "t", "x", "t">> } }

AnyContexts ==
    {None} \cup
    { Some(c) : c \in UNION {[1..n -> AnyChunks] : n \in 0..MaxContext} }

AnyQuestions == { None, Some(<<"h", "i">>), Some(<<"q", "Q", "q">>) }

AnyAnswers ==
    { None,
      Some(LLMInvoke([model |-> Some("llama3")],
                     PromptInvoke(RagPrompt,
                                  [question |-> <<"h", "i">>,
                                   context |-> <<"t">>])).content) }

AnyStates == [question : AnyQuestions, context : AnyContexts, answer : AnyAnswers]

AnyStores ==
    { [documents |-> d] : d \in UNION {[1..n -> AnyChunks] : n \in 0..1} }

InitRAG ==
    /\ pc \in {"retrieve", "generate"}
    /\ OLLAMA_MODEL = Some("llama3")
    /\ kb_exists = Some(TRUE)
    /\ dir_listing = None
    /\ text_documents = <<>>
    /\ vector_store \in {Some(v) : v \in AnyStores}
    /\ prompt = Some(RagPrompt)
    /\ model_name = Some("llama3")
    /\ llm = Some([model |-> Some("llama3")])
    /\ line = None
    /\ user_input = None
    /\ state \in AnyStates
    /\ serialized_result = None
    /\ stdout = Message("")
    /\ exc = ""
    /\ raised_at = ""
    /\ trace = <<>>

NextRAG ==
    \/ RetrieveNode
    \/ GenerateNode

SpecRAG == InitRAG /\ [][NextRAG]_vars

(***************************************************************************)
(* Properties.                                                             *)
(***************************************************************************)
Count(seq, e) == Cardinality({i \in 1..Len(seq) : seq[i] = e})

Contains(seq, e) == \E i \in 1..Len(seq) : seq[i] = e

LoopPositions == {"input", "retrieve", "generate", "serialize", "display", "except"}

\* a submitted turn is over: the loop is back at input() with the turn's calls
TurnOver == pc = "input" /\ trace # <<>>

\* C1: in the loop, an exception raised by the pipeline invocation, by
\* State(**result) or by display_response is caught by the except clause,
\* which prints the error and goes back to input(); main() never ends on an
\* exception raised inside the try block.
C1_PipelineFailureCaught ==
    /\ [](pc = "aborted" => raised_at \notin TryBlock)
    /\ [][ /\ (pc \in TryBlock /\ exc' # "")
              => (pc' = "except" /\ raised_at' = pc /\ UNCHANGED stdout)
           /\ pc = "except"
              => /\ pc' = "input"
                 /\ stdout' = [kind |-> "error", exc |-> exc, answer |-> None]
         ]_vars

\* C1 witness: after a turn that succeeded, a later turn failed in generate,
\* the error was printed and the loop is back at input().
C1_Witness ==
    /\ pc = "input"
    /\ stdout = [kind |-> "error", exc |-> "ServiceError", answer |-> None]
    /\ Contains(trace, "generate:raise")
    /\ serialized_result # None
    /\ Val(serialized_result).question # user_input

Blanks == {" ", "\t"}

IsBlank(l) == \A i \in 1..Len(l) : l[i] \in Blanks

\* C2: after a line that is empty or all whitespace the loop has printed the
\* usage hint and is back at input(), and nothing of the pipeline was called.
C2_BlankInputSkipsPipeline ==
    (line # None /\ IsBlank(Val(line)))
        => /\ pc = "input"
           /\ stdout = Message("hint")
           /\ trace = <<>>

\* C2 witness: three spaces were typed after an earlier answered turn.
C2_Witness ==
    /\ line = Some(<<" ", " ", " ">>)
    /\ stdout = Message("hint")
    /\ pc = "input"
    /\ serialized_result # None

SameLetter(typed, letter) ==
    \/ typed = letter
    \/ <<typed, letter>> \in { <<"Q", "q">>, <<"U", "u">>, <<"I", "i">>,
                               <<"T", "t">>, <<"E", "e">>, <<"X", "x">> }

\* the line is blanks, then an exit keyword in any case, then blanks
IsExitLine(l) ==
    \E kw \in { <<"q", "u", "i", "t">>, <<"e", "x", "i", "t">>, <<"q">> } :
      \E i \in 1..Len(l) :
        /\ i + Len(kw) - 1 <= Len(l)
        /\ \A k \in 1..Len(l) :
             IF k >= i /\ k < i + Len(kw)
             THEN SameLetter(l[k], kw[k - i + 1])
             ELSE l[k] \in Blanks

\* C3: a line that is an exit keyword once trimmed and lower-cased ends the
\* loop at once: the farewell is printed, nothing of the pipeline is called
\* and no step follows; and the loop is left by break on such a line only.
C3_ExitKeywordTerminates ==
    /\ (line # None /\ IsExitLine(Val(line)))
          => /\ pc = "exited"
             /\ stdout = Message("farewell")
             /\ trace = <<>>
    /\ pc = "exited"
          => /\ line # None
             /\ IsExitLine(Val(line))
             /\ ~ ENABLED Next

\* C3 witness: "  EXIT " was typed after an earlier answered turn.
C3_Witness ==
    /\ pc = "exited"
    /\ line = Some(<<" ", " ", "E", "X", "I", "T", " ">>)
    /\ serialized_result # None

\* C4: retrieve on a State without a question raises ValueError and does
\* not call similarity_search, whatever the context and the answer are.
C4_RetrieveRequiresQuestion ==
    [][ (pc = "retrieve" /\ state.question = None)
          => /\ pc' = "except"
             /\ exc' = "ValueError"
             /\ raised_at' = "retrieve"
             /\ ~ Contains(trace', "similarity_search")
             /\ state' = state
      ]_vars

\* C4 witness: retrieve raised on a State with a context and an answer but
\* no question.
C4_Witness ==
    /\ pc = "except"
    /\ raised_at = "retrieve"
    /\ state.question = None
    /\ state.context # None
    /\ state.answer # None

\* C5: generate on a State whose context is None or empty, or whose question
\* is None, raises ValueError, and neither the prompt nor the chat model is
\* called and no answer is set; so it is after a retrieve that found nothing.
C5_GenerateRequiresContext ==
    [][ (pc = "generate" /\ ( \/ state.context = None
                              \/ state.context = Some(<<>>)
                              \/ state.question = None ))
          => /\ pc' = "except"
             /\ exc' = "ValueError"
             /\ raised_at' = "generate"
             /\ ~ Contains(trace', "prompt.invoke")
             /\ ~ Contains(trace', "llm.invoke")
             /\ state' = state
      ]_vars

\* C5 witness: retrieve returned no chunk and generate then raised, with
\* no answer.
C5_Witness ==
    /\ pc = "except"
    /\ trace = <<"retrieve", "similarity_search", "retrieve:return",
                 "generate", "generate:raise">>
    /\ state.context = Some(<<>>)
    /\ state.answer = None

NodeEventNames ==
    { "retrieve", "retrieve:return", "retrieve:raise",
      "generate", "generate:return", "generate:raise" }

\* what the nodes did in the current turn, in order
NodeEvents == SelectSeq(trace, LAMBDA e : e \in NodeEventNames)

AtStart == <<>>

Retrieved == <<"retrieve", "retrieve:return">>

RetrieveFailed == <<"retrieve", "retrieve:raise">>

Answered == <<"retrieve", "retrieve:return", "generate", "generate:return">>

GenerateFailed == <<"retrieve", "retrieve:return", "generate", "generate:raise">>

\* C6: in a turn the nodes run in the order retrieve, generate, each at most
\* once: generate runs only after retrieve returned, the answer exists only
\* after generate returned, and a turn that is over ended answered or in an
\* error raised before that.
C6_LinearPipeline ==
    /\ NodeEvents \in {AtStart, Retrieved, RetrieveFailed, Answered, GenerateFailed}
    /\ pc = "retrieve" => NodeEvents = AtStart
    /\ pc = "generate" => NodeEvents = Retrieved /\ state.context # None
    /\ pc \in {"serialize", "display"}
          => NodeEvents = Answered /\ state.answer # None
    /\ (pc = "except" /\ raised_at = "retrieve")
          => NodeEvents \in {AtStart, RetrieveFailed}
    /\ (pc = "except" /\ raised_at = "generate")
          => NodeEvents \in {Retrieved, GenerateFailed}
    /\ (TurnOver /\ stdout.kind = "answer") => NodeEvents = Answered
    /\ (TurnOver /\ NodeEvents # Answered)
          => stdout.kind = "error" /\ state.answer = None

\* C6 witness: a turn is answered after retrieve and generate ran once each.
C6_Witness ==
    /\ pc = "display"
    /\ NodeEvents = Answered
    /\ Val(state.context) # <<>>

Started ==
    \/ pc \in LoopPositions \cup {"exited"}
    \/ raised_at \in LoopPositions
    \/ line # None
    \/ stdout.kind \notin {"", "banner"}

StartupPositions ==
    {"index_knowledge_base", "from_documents", "get_prompt", "get_model_name"}

TxtNames == { <<"a", ".", "t", "x", "t">>, <<"b", ".", "t", "x", "t">> }

DocumentsOf(name) ==
    {k \in 1..Len(text_documents) : text_documents[k].metadata.filename = name}

\* C8: _load_text_files returns one Document for each *.txt entry that could
\* be read and none for any other entry, whatever else failed to read; and
\* when it returns nothing index_knowledge_base raises the ValueError of the
\* empty knowledge base before any splitting or embedding.
C8_LoadTextFiles ==
    dir_listing # None
      => LET listing == Val(dir_listing)
         IN  /\ \A i \in 1..Len(listing) :
                  Cardinality(DocumentsOf(listing[i].name))
                    = IF listing[i].name \in TxtNames /\ listing[i].readable
                      THEN 1 ELSE 0
             /\ \A k \in 1..Len(text_documents) :
                  \E i \in 1..Len(listing) :
                    /\ text_documents[k].metadata.filename = listing[i].name
                    /\ text_documents[k].page_content = listing[i].content
             /\ (\A i \in 1..Len(listing) : listing[i].name \notin TxtNames)
                  => Len(text_documents) = 0
             /\ Len(text_documents) = 0
                  => /\ pc = "aborted"
                     /\ exc = "ValueError"
                     /\ raised_at = "index_knowledge_base"
                     /\ vector_store = None
                     /\ ~ Contains(trace, "split_documents")
                     /\ ~ Contains(trace, "from_documents")

\* C8 witness: the first *.txt entry could not be read and the second one
\* was loaded all the same.
C8_Witness ==
    /\ dir_listing # None
    /\ Len(Val(dir_listing)) = 2
    /\ Val(dir_listing)[1].name \in TxtNames
    /\ ~ Val(dir_listing)[1].readable
    /\ Val(dir_listing)[2].name \in TxtNames
    /\ Len(text_documents) = 1
    /\ pc = "from_documents"

\* the answer the fixed store, prompt and chat model give to a question
ExpectedAnswer(q) ==
    LLMInvoke(Val(llm),
              PromptInvoke(Val(prompt),
                  [question |-> q,
                   context |-> DocumentsContent(
                                  SimilaritySearch(Val(vector_store), q))])).content

\* C9: every turn starts from a State holding the question alone, and the
\* answer of a turn is the one the store, prompt and chat model give to that
\* question, whatever the earlier turns were.
C9_AnswerDependsOnQuestionOnly ==
    /\ pc = "retrieve"
          => state = [question |-> user_input, context |-> None, answer |-> None]
    /\ pc \in {"serialize", "display"}
          => state.answer = Some(ExpectedAnswer(Val(user_input)))
    /\ (TurnOver /\ stdout.kind = "answer")
          => stdout.answer = Some(ExpectedAnswer(Val(user_input)))

\* C9 witness: a turn starts fresh after an answered turn on another question.
C9_Witness ==
    /\ pc = "retrieve"
    /\ serialized_result # None
    /\ Val(serialized_result).answer # None
    /\ Val(serialized_result).question # state.question
    /\ state.context = None
    /\ state.answer = None

\* C10 as stated: every turn submitted to the pipeline calls the chat model
\* exactly once.
C10_Original == TurnOver => Count(trace, "llm.invoke") = 1

\* C10 amended: the chat model is called at most once in a turn: once when
\* retrieve returned at least one chunk and the prompt was rendered, and not
\* at all otherwise.
C10_ChatModelAtMostOnce ==
    /\ Count(trace, "llm.invoke") <= 1
    /\ TurnOver
          => ( Count(trace, "llm.invoke") = 1
               <=> /\ Contains(trace, "retrieve:return")
                   /\ state.context # None
                   /\ state.context # Some(<<>>)
                   /\ Contains(trace, "prompt.invoke")
                   /\ ~ Contains(trace, "prompt.invoke:raise") )

\* C10 witness: a turn is over in which the chat model was never called,
\* because retrieve found nothing.
C10_Witness ==
    /\ TurnOver
    /\ Count(trace, "llm.invoke") = 0
    /\ state.context = Some(<<>>)
    /\ stdout.kind = "error"

====
